---- MODULE Spec2Model ----
(***************************************************************************)
(* Link-preview enrichment pipeline of the crawl_inductee_links command:   *)
(* Command.handle selects the pending InducteeOutboundLink rows and calls  *)
(* Command.process_link on each; process_link scrapes the page, stores the *)
(* metadata, downloads the og:image and, when there is none, falls back to *)
(* Command.capture_screenshot_async (a headless-browser screenshot).       *)
(*                                                                         *)
(* One action per step of the two methods; every remote call, parse and    *)
(* save resolves nondeterministically to its value or to an exception.     *)
(***************************************************************************)
EXTENDS Integers, Sequences, FiniteSets, TLC

\* ------------------------------------------------------------------ bounds

\* number of InducteeOutboundLink rows in the table
NumLinks == 2

Links == 1..NumLinks

\* The processes that may invoke the command. Spec lets only w1 run (the
\* command run again and again); SpecConc lets w1 and w2 run at once.
Workers == {"w1", "w2"}

\* ------------------------------------------------------------ values

\* a column never written (NULL / the row as created, url only)
Unset == "unset"
\* the domain column never written: a domain is a sequence of characters,
\* and so is this value, which is no netloc
UnsetDomain == <<"unset">>
\* Python's None, as a value the code assigns
None == "None"
NoLink == [id |-> 0]
NoSoup == [og_title |-> "-", title |-> "-", og_desc |-> "-", og_img |-> "-"]

\* link.url of each row: the netloc as a sequence of characters
Netloc(i) ==
    CASE i = 1 -> <<"w", "w", "w", ".", "a">>
      [] i = 2 -> <<"a", ".", "w", "w", "w", ".", "b">>
      [] OTHER -> <<"b", ".", "c">>

\* str.replace(old, "") on sequences of characters: every non-overlapping
\* occurrence of old, scanning left to right, is removed
RECURSIVE RemoveAll(_, _)
RemoveAll(s, old) ==
    IF Len(s) < Len(old) THEN s
    ELSE IF SubSeq(s, 1, Len(old)) = old
         THEN RemoveAll(SubSeq(s, Len(old) + 1, Len(s)), old)
         ELSE <<Head(s)>> \o RemoveAll(Tail(s), old)

\* line 18: domain.replace("www.", "")
clean_domain(domain) == RemoveAll(domain, <<"w", "w", "w", ".">>)

\* get_domain_from_url(link.url) of row i
get_domain_from_url(i) == clean_domain(Netloc(i))

\* the outcomes of requests.get(link.url) followed by raise_for_status()
PageOutcomes == {"ok", "timeout", "http_error"}

\* what soup.find/soup.title return for the four tags the code reads.
\*   og_title: no such tag / a tag without content / with content
\*   og_desc: no such tag / a tag with content (a tag without content
\*   makes the description None; whether the column accepts it is decided
\*   by content.models, and the pages drawn here leave that case out)
\*   title: no <title> / a <title> whose .string is None / with text
\*   og_img: no tag / empty or missing content / a URL, named after what
\*   the URL serves: a decodable image, a 404, no answer in time, or bytes
\*   that are no image
Soups ==
    [og_title : {"absent", "nocontent", "content"},
     title    : {"absent", "nostring", "text"},
     og_desc  : {"absent", "content"},
     og_img   : {"absent", "empty", "good", "http404", "timeout", "corrupt"}]

\* the expression of lines 56-60 before the slice: None makes [:249] raise
SelectedTitle(s) ==
    IF s.og_title # "absent"
    THEN (IF s.og_title = "content" THEN "og_title" ELSE None)
    ELSE IF s.title # "absent"
         THEN (IF s.title = "text" THEN "title_tag" ELSE None)
         ELSE ""

SelectedDescription(s) ==
    IF s.og_desc # "absent"
    THEN (IF s.og_desc = "content" THEN "og_description" ELSE None)
    ELSE ""

\* og_img and og_img.get("content")
HasOgImage(s) == s.og_img \notin {"absent", "empty"}

\* requests.get(img_url): the status, or the exception raised
ImageFetch(s) ==
    CASE s.og_img = "timeout" -> "timeout"
      [] s.og_img = "http404" -> "404"
      [] OTHER -> "200"

\* the columns of a row / the attributes of the in-memory object
Fields(l) ==
    [domain |-> l.domain, title |-> l.title, description |-> l.description,
     image |-> l.image, downloaded_datetime |-> l.downloaded_datetime]

Blank ==
    [domain |-> UnsetDomain, title |-> Unset, description |-> Unset,
     image |-> Unset, downloaded_datetime |-> Unset]

\* a model instance loaded from row i
Load(i, row) ==
    [id |-> i, domain |-> row.domain, title |-> row.title,
     description |-> row.description, image |-> row.image,
     downloaded_datetime |-> row.downloaded_datetime]

VARIABLES
    store,      \* the InducteeOutboundLink table: Links -> row
    pc,         \* each worker's position in handle / process_link
    queue,      \* each worker's evaluated links_qs: instances still to visit
    selected,   \* ids of the instances the worker's current run selected
    called,     \* ids process_link was called on in the worker's current run
    link,       \* the instance process_link is working on
    response,   \* outcome of the page request of this process_link call
    soup,       \* the parsed page of this process_link call
    img_res,    \* outcome of the image request of this process_link call
    fallbacks,  \* calls of capture_screenshot_async in this process_link call
    browser,    \* the browser of this capture_screenshot_async call
    dom,        \* the rendered page's metadata, against the static HTML's
    exc,        \* the exception the outer handler caught, if any
    probe,      \* a function of the code applied to one input, on its own
    issues,     \* the MagazineIssuePage table: Issues -> row
    pages,      \* the MagazinePage table: ai_data of each page of each issue
    mpc,        \* position of the process_magazine_pages command
    magazine_qs, \* its evaluated queryset: the issues still to visit
    magazine,   \* the issue of the current iteration (0: none)
    response_text, \* response.text of the call of generate_content
    data,       \* response_json, the argument of process_data
    entry,      \* index into data of the page entry process_data is at
    merr,       \* the exception raised in the current iteration, if any
    files,      \* the magazine directory: what each file name holds
    opc,        \* position of the import_magazines_og_img command
    large_paths, \* the L-*.jpg files of the glob it has still to visit
    count,      \* its counter of images generated
    raised,     \* whether an exception was caught in its current run
    settled,    \* its last run ended without one, no file changed since
    rerun       \* its current run began in such a state

\* the state of the crawl_inductee_links command
crawl_vars == <<store, pc, queue, selected, called, link, response, soup,
                img_res, fallbacks, browser, dom, exc>>

\* the state of the process_magazine_pages command
mag_vars == <<issues, pages, mpc, magazine_qs, magazine, response_text, data,
              entry, merr>>

\* the state of the import_magazines_og_img command
og_vars == <<files, opc, large_paths, count, raised, settled, rerun>>

\* the state the crawl_inductee_links command does not touch
other_vars == <<probe, mag_vars, og_vars>>

\* the state the functions applied on their own do not touch
not_probe == <<crawl_vars, mag_vars, og_vars>>

\* the state the process_magazine_pages command does not touch
not_mag == <<crawl_vars, probe, og_vars>>

\* the state the import_magazines_og_img command does not touch
not_og == <<crawl_vars, probe, mag_vars>>

vars == <<crawl_vars, other_vars>>

locals == <<link, response, soup, img_res, fallbacks, browser, dom, exc>>

\* no function is being applied on its own
NoProbe == [fn |-> "-", arg |-> <<>>, out |-> <<>>, applied |-> FALSE]

ProbeNone == probe = NoProbe

\* number of MagazineIssuePage rows
NumIssues == 2

Issues == 1..NumIssues

\* the page numbers that have a MagazinePage row, in every issue
PageRows == {1}

\* the page_number values of the entries drawn: a page with a row and a
\* page without one
PageNumbers == {1, 2}

\* most page entries in a response
MaxEntries == 2

\* the page entries drawn: a dict with the key page_number, or without it
Entries == {[page_number |-> n] : n \in PageNumbers} \cup {[page_title |-> "Contents"]}

\* the JSON arrays the model may answer with
Arrays == UNION {[1..n -> Entries] : n \in 0..MaxEntries}

\* response.text: a JSON array of page entries, or text that is no JSON
Responses == [json : {TRUE}, array : Arrays] \cup {[json |-> FALSE, array |-> <<>>]}

NoResponse == [json |-> FALSE, array |-> <<>>]

\* ai_data of a MagazinePage row never updated: the column's default, {}
NoPageData == <<>>

\* the process_magazine_pages command not run, over issues with a PDF
MagNone ==
    /\ issues = [i \in Issues |->
                   [download_pdf |-> TRUE, ai_data |-> <<>>,
                    ai_processed_datetime |-> Unset]]
    /\ pages = [i \in Issues |-> [n \in PageRows |-> NoPageData]]
    /\ mpc = "idle"
    /\ magazine_qs = <<>>
    /\ magazine = 0
    /\ response_text = NoResponse
    /\ data = <<>>
    /\ entry = 0
    /\ merr = "-"

\* number of page scans in the magazine directory
NumScans == 2

Scans == 1..NumScans

\* the base name of the large image of scan k, without the .jpg: "L-" and
\* the name of the page, in which "L-" may occur again
LargeName(k) ==
    <<"L", "-">> \o (CASE k = 1 -> <<"1">>
                       [] k = 2 -> <<"L", "-", "2">>
                       [] OTHER -> <<"O", "G", "-", "3">>)

\* str.replace(old, new, 1) on sequences of characters: the first
\* occurrence of old, scanning left to right, is replaced
RECURSIVE ReplaceFirst(_, _, _)
ReplaceFirst(s, old, new) ==
    IF Len(s) < Len(old) THEN s
    ELSE IF SubSeq(s, 1, Len(old)) = old
         THEN new \o SubSeq(s, Len(old) + 1, Len(s))
         ELSE <<Head(s)>> \o ReplaceFirst(Tail(s), old, new)

\* line 22: filename.replace("L-", "OG-", 1)
og_filename(filename) == ReplaceFirst(filename, <<"L", "-">>, <<"O", "G", "-">>)

\* the file names of the directory: the large images and the names the
\* command derives from them
Names ==
    {LargeName(k) : k \in Scans} \cup {og_filename(LargeName(k)) : k \in Scans}

\* the pattern of line 18, L-*.jpg
IsLarge(name) == Len(name) >= 2 /\ SubSeq(name, 1, 2) = <<"L", "-">>

\* the import_magazines_og_img command not run, over an empty directory
OgNone ==
    /\ files = [n \in Names |-> "none"]
    /\ opc = "idle"
    /\ large_paths = {}
    /\ count = 0
    /\ raised = FALSE
    /\ settled = FALSE
    /\ rerun = FALSE

\* the table as created and no invocation of the command yet
CrawlInit ==
    /\ store = [i \in Links |-> Blank]
    /\ pc = [w \in Workers |-> "idle"]
    /\ queue = [w \in Workers |-> <<>>]
    /\ selected = [w \in Workers |-> {}]
    /\ called = [w \in Workers |-> {}]
    /\ link = [w \in Workers |-> NoLink]
    /\ response = [w \in Workers |-> "-"]
    /\ soup = [w \in Workers |-> NoSoup]
    /\ img_res = [w \in Workers |-> "-"]
    /\ fallbacks = [w \in Workers |-> 0]
    /\ browser = [w \in Workers |-> "-"]
    /\ dom = [w \in Workers |-> "-"]
    /\ exc = [w \in Workers |-> "-"]

Init ==
    /\ CrawlInit
    /\ ProbeNone
    /\ MagNone
    /\ OgNone

\* ------------------------------------------------------------ handle

\* mutant of Pending: the filter dropped, every row is selected
Pending_All(i) == i \in Links

\* filter(downloaded_datetime__isnull=True)
Pending(i) == store[i].downloaded_datetime = Unset

\* the rows the queryset yields, in id order, as a sequence of instances
RECURSIVE Evaluate(_)
Evaluate(i) ==
    IF i > NumLinks THEN <<>>
    ELSE (IF Pending(i) THEN <<Load(i, store[i])>> ELSE <<>>) \o Evaluate(i + 1)

links_qs == Evaluate(1)

\* handle, lines 25-34: the queryset is evaluated; no rows, no loop.
\* exists() (line 30) and the iteration (line 34) read the table in one
\* step: they differ only in the message written when a row is finished
\* by another process in between.
HandleStart(w) ==
    /\ pc[w] \in {"idle", "done"}
    /\ queue' = [queue EXCEPT ![w] = links_qs]
    /\ selected' = [selected EXCEPT ![w] = {i \in Links : Pending(i)}]
    /\ called' = [called EXCEPT ![w] = {}]
    /\ pc' = [pc EXCEPT ![w] = IF links_qs = <<>> THEN "done" ELSE "loop"]
    /\ UNCHANGED <<store, locals>>
    /\ UNCHANGED other_vars

\* handle, lines 34-36: the next instance of the loop, or the end of the run
NextLink(w) ==
    /\ pc[w] \in {"loop", "return"}
    /\ IF queue[w] = <<>>
       THEN /\ pc' = [pc EXCEPT ![w] = "done"]
            /\ link' = [link EXCEPT ![w] = NoLink]
            /\ UNCHANGED <<queue, called>>
       ELSE /\ pc' = [pc EXCEPT ![w] = "fetch_page"]
            /\ link' = [link EXCEPT ![w] = Head(queue[w])]
            /\ queue' = [queue EXCEPT ![w] = Tail(queue[w])]
            /\ called' = [called EXCEPT ![w] = @ \cup {Head(queue[w]).id}]
    /\ response' = [response EXCEPT ![w] = "-"]
    /\ soup' = [soup EXCEPT ![w] = NoSoup]
    /\ img_res' = [img_res EXCEPT ![w] = "-"]
    /\ fallbacks' = [fallbacks EXCEPT ![w] = 0]
    /\ browser' = [browser EXCEPT ![w] = "-"]
    /\ dom' = [dom EXCEPT ![w] = "-"]
    /\ exc' = [exc EXCEPT ![w] = "-"]
    /\ UNCHANGED <<store, selected>>
    /\ UNCHANGED other_vars

\* ------------------------------------------------------ process_link

\* mutant of Raise: the exception is not caught in process_link and ends
\* handle with it
Raise_Abort(w, e) ==
    /\ pc' = [pc EXCEPT ![w] = "done"]
    /\ exc' = [exc EXCEPT ![w] = e]

\* mutant of Raise: the handler tries the row again
Raise_Retry(w, e) ==
    /\ pc' = [pc EXCEPT ![w] = "fetch_page"]
    /\ exc' = [exc EXCEPT ![w] = e]

\* an exception leaves the try body for the handler of lines 96-99, which
\* writes the failure to stderr; process_link returns
Raise(w, e) ==
    /\ pc' = [pc EXCEPT ![w] = "return"]
    /\ exc' = [exc EXCEPT ![w] = e]

\* Model.save(): every column of the row is written from the instance
Save(l) == [store EXCEPT ![l.id] = Fields(l)]

\* mutant of FetchPage: a failed request goes on to the screenshot fallback
FetchPage_FallbackOnFailure(w, e) ==
    /\ pc[w] = "fetch_page"
    /\ \E r \in e.pages :
        /\ response' = [response EXCEPT ![w] = r]
        /\ pc' = [pc EXCEPT ![w] = IF r = "ok" THEN "parse" ELSE "fallback"]
    /\ UNCHANGED <<store, queue, selected, called, link, soup, img_res,
                   fallbacks, browser, dom, exc>>
    /\ UNCHANGED other_vars

\* mutant of FetchPage: the domain is set and saved before the request
FetchPage_DomainFirst(w, e) ==
    /\ pc[w] = "fetch_page"
    /\ link' = [link EXCEPT ![w].domain = get_domain_from_url(link[w].id)]
    /\ store' = Save(link'[w])
    /\ \E r \in e.pages :
        /\ response' = [response EXCEPT ![w] = r]
        /\ IF r = "ok"
           THEN pc' = [pc EXCEPT ![w] = "parse"] /\ UNCHANGED exc
           ELSE Raise(w, r)
    /\ UNCHANGED <<queue, selected, called, soup, img_res, fallbacks,
                   browser, dom>>
    /\ UNCHANGED other_vars

\* lines 45-48: requests.get(link.url) and raise_for_status()
FetchPage(w, e) ==
    /\ pc[w] = "fetch_page"
    /\ \E r \in e.pages :
        /\ response' = [response EXCEPT ![w] = r]
        /\ IF r = "ok"
           THEN pc' = [pc EXCEPT ![w] = "parse"] /\ UNCHANGED exc
           ELSE Raise(w, r)
    /\ UNCHANGED <<store, queue, selected, called, link, soup, img_res,
                   fallbacks, browser, dom>>
    /\ UNCHANGED other_vars

\* lines 49-62: parse, set domain, title and description, link.save()
ParseAndStore(w, e) ==
    /\ pc[w] = "parse"
    /\ \E s \in e.soups, saved \in e.db :
        /\ soup' = [soup EXCEPT ![w] = s]
        /\ IF SelectedTitle(s) = None
           THEN \* None[:249] raises TypeError, after line 55 set the domain
                /\ link' = [link EXCEPT
                              ![w].domain = get_domain_from_url(link[w].id)]
                /\ Raise(w, "TypeError")
                /\ UNCHANGED store
           ELSE /\ link' = [link EXCEPT ![w] =
                              [@ EXCEPT !.domain = get_domain_from_url(link[w].id),
                                        !.title = SelectedTitle(s),
                                        !.description = SelectedDescription(s)]]
                /\ IF saved
                   THEN /\ store' = Save(link'[w])
                        /\ pc' = [pc EXCEPT ![w] = "og_image"]
                        /\ UNCHANGED exc
                   ELSE /\ Raise(w, "DatabaseError")
                        /\ UNCHANGED store
    /\ UNCHANGED <<queue, selected, called, response, img_res, fallbacks,
                   browser, dom>>
    /\ UNCHANGED other_vars

\* lines 65-72: the og:image tag and the request for the image it names
CheckOgImage(w) ==
    /\ pc[w] = "og_image"
    /\ IF HasOgImage(soup[w])
       THEN /\ img_res' = [img_res EXCEPT ![w] = ImageFetch(soup[w])]
            /\ IF ImageFetch(soup[w]) = "timeout"
               THEN Raise(w, "timeout")
               ELSE /\ pc' = [pc EXCEPT ![w] =
                                IF ImageFetch(soup[w]) = "200"
                                THEN "normalize" ELSE "fallback"]
                    /\ UNCHANGED exc
       ELSE /\ pc' = [pc EXCEPT ![w] = "fallback"]
            /\ UNCHANGED <<img_res, exc>>
    /\ UNCHANGED <<store, queue, selected, called, link, response, soup,
                   fallbacks, browser, dom>>
    /\ UNCHANGED other_vars

\* lines 75-83: Image.open, thumbnail, convert and the JPEG encoding
Normalize(w) ==
    /\ pc[w] = "normalize"
    /\ IF soup[w].og_img = "corrupt"
       THEN Raise(w, "UnidentifiedImageError")
       ELSE pc' = [pc EXCEPT ![w] = "save_image"] /\ UNCHANGED exc
    /\ UNCHANGED <<store, queue, selected, called, link, response, soup, img_res,
                   fallbacks, browser, dom>>
    /\ UNCHANGED other_vars

\* mutant of SaveImage: link.image.save(..., save=True) saves the row with
\* its image before the timestamp is set and saved
SaveImage_ImageFirst(w, e) ==
    /\ pc[w] = "save_image"
    /\ link' = [link EXCEPT ![w] = [@ EXCEPT !.image = "preview",
                                             !.downloaded_datetime = "now"]]
    /\ \E saved \in e.db :
        IF saved
        THEN /\ store' = Save(link'[w])
             /\ pc' = [pc EXCEPT ![w] = "return"]
             /\ UNCHANGED exc
        ELSE /\ Raise(w, "DatabaseError")
             /\ store' = Save([link[w] EXCEPT !.image = "preview"])
    /\ UNCHANGED <<queue, selected, called, response, soup, img_res, fallbacks,
                   browser, dom>>
    /\ UNCHANGED other_vars

\* lines 85-90: the image and the timestamp are set and saved; return
SaveImage(w, e) ==
    /\ pc[w] = "save_image"
    /\ link' = [link EXCEPT ![w] = [@ EXCEPT !.image = "preview",
                                             !.downloaded_datetime = "now"]]
    /\ \E saved \in e.db :
        IF saved
        THEN /\ store' = Save(link'[w])
             /\ pc' = [pc EXCEPT ![w] = "return"]
             /\ UNCHANGED exc
        ELSE /\ Raise(w, "DatabaseError")
             /\ UNCHANGED store
    /\ UNCHANGED <<queue, selected, called, response, soup, img_res, fallbacks,
                   browser, dom>>
    /\ UNCHANGED other_vars

\* ------------------------------------------- capture_screenshot_async

\* mutant of PlaywrightExit: playwright started without the context
\* manager and never stopped; a browser not closed stays open
PlaywrightExit_Leak(b) == b

\* line 102, leaving the async with block: playwright is stopped and its
\* driver process ends, and with it a browser the driver launched and
\* browser.close() did not close
PlaywrightExit(b) == IF b = "open" THEN "stopped" ELSE b

\* lines 93-94 and 102-103: asyncio.run(capture_screenshot_async(link));
\* playwright starts and chromium is launched
Launch(w, e) ==
    /\ pc[w] = "fallback"
    /\ fallbacks' = [fallbacks EXCEPT ![w] = @ + 1]
    /\ \E ok \in e.browser :
        IF ok
        THEN /\ browser' = [browser EXCEPT ![w] = "open"]
             /\ pc' = [pc EXCEPT ![w] = "new_context"]
             /\ UNCHANGED exc
        ELSE /\ Raise(w, "LaunchError")
             /\ UNCHANGED browser
    /\ UNCHANGED <<store, queue, selected, called, link, response, soup, img_res,
                   dom>>
    /\ UNCHANGED other_vars

\* lines 104-105: new_context and new_page, before the try of line 107:
\* their exception passes no finally, browser.close() is not called, and it
\* leaves the async with block of line 102 on its way to process_link
NewContext(w, e) ==
    /\ pc[w] = "new_context"
    /\ \E ok \in e.browser :
        IF ok
        THEN pc' = [pc EXCEPT ![w] = "goto"] /\ UNCHANGED <<exc, browser>>
        ELSE /\ Raise(w, "ContextError")
             /\ browser' = [browser EXCEPT ![w] = PlaywrightExit(@)]
    /\ UNCHANGED <<store, queue, selected, called, link, response, soup, img_res,
                   fallbacks, dom>>
    /\ UNCHANGED other_vars

\* lines 108-109: navigation; the rendered page's metadata is that of the
\* static HTML or differs from it (set by the page's scripts)
Goto(w, e) ==
    /\ pc[w] = "goto"
    /\ \E ok \in e.browser :
        IF ok
        THEN /\ \E d \in e.doms : dom' = [dom EXCEPT ![w] = d]
             /\ pc' = [pc EXCEPT ![w] = "screenshot"]
        ELSE /\ pc' = [pc EXCEPT ![w] = "fb_except"]
             /\ UNCHANGED dom
    /\ UNCHANGED <<store, queue, selected, called, link, response, soup, img_res,
                   fallbacks, browser, exc>>
    /\ UNCHANGED other_vars

\* line 112: page.screenshot
Screenshot(w, e) ==
    /\ pc[w] = "screenshot"
    /\ \E ok \in e.browser :
        pc' = [pc EXCEPT ![w] = IF ok THEN "resize" ELSE "fb_except"]
    /\ UNCHANGED <<store, queue, selected, called, locals>>
    /\ UNCHANGED other_vars

\* lines 115-122: Image.open, resize and the JPEG encoding
Resize(w, e) ==
    /\ pc[w] = "resize"
    /\ \E ok \in e.browser :
        pc' = [pc EXCEPT ![w] = IF ok THEN "save_fallback" ELSE "fb_except"]
    /\ UNCHANGED <<store, queue, selected, called, locals>>
    /\ UNCHANGED other_vars

\* the title and description of the rendered page: those of the static
\* HTML, or others when the page's scripts changed them
RenderedTitle(w) ==
    IF dom[w] = "changed" THEN "rendered_title" ELSE SelectedTitle(soup[w])

RenderedDescription(w) ==
    IF dom[w] = "changed" THEN "rendered_description"
    ELSE SelectedDescription(soup[w])

\* mutant of SaveFallback: the rendered page's metadata is stored as well
SaveFallback_Rendered(w, e) ==
    /\ pc[w] = "save_fallback"
    /\ link' = [link EXCEPT ![w] = [@ EXCEPT !.image = "pageimg",
                                             !.downloaded_datetime = "now",
                                             !.title = RenderedTitle(w),
                                             !.description = RenderedDescription(w)]]
    /\ \E saved \in e.db :
        IF saved
        THEN /\ store' = Save(link'[w])
             /\ pc' = [pc EXCEPT ![w] = "close"]
        ELSE /\ pc' = [pc EXCEPT ![w] = "fb_except"]
             /\ UNCHANGED store
    /\ UNCHANGED <<queue, selected, called, response, soup, img_res, fallbacks,
                   browser, dom, exc>>
    /\ UNCHANGED other_vars

\* mutant of SaveFallback: link.image.save(..., save=True) saves the row
\* with its image before the timestamp is set and saved
SaveFallback_ImageFirst(w, e) ==
    /\ pc[w] = "save_fallback"
    /\ link' = [link EXCEPT ![w] = [@ EXCEPT !.image = "pageimg",
                                             !.downloaded_datetime = "now"]]
    /\ \E saved \in e.db :
        IF saved
        THEN /\ store' = Save(link'[w])
             /\ pc' = [pc EXCEPT ![w] = "close"]
        ELSE /\ store' = Save([link[w] EXCEPT !.image = "pageimg"])
             /\ pc' = [pc EXCEPT ![w] = "fb_except"]
    /\ UNCHANGED <<queue, selected, called, response, soup, img_res, fallbacks,
                   browser, dom, exc>>
    /\ UNCHANGED other_vars

\* lines 125-128: the image and the timestamp are set and saved (asave)
SaveFallback(w, e) ==
    /\ pc[w] = "save_fallback"
    /\ link' = [link EXCEPT ![w] = [@ EXCEPT !.image = "pageimg",
                                             !.downloaded_datetime = "now"]]
    /\ \E saved \in e.db :
        IF saved
        THEN /\ store' = Save(link'[w])
             /\ pc' = [pc EXCEPT ![w] = "close"]
        ELSE /\ pc' = [pc EXCEPT ![w] = "fb_except"]
             /\ UNCHANGED store
    /\ UNCHANGED <<queue, selected, called, response, soup, img_res, fallbacks,
                   browser, dom, exc>>
    /\ UNCHANGED other_vars

\* lines 130-131: the inner handler writes the error to stderr
ExceptInner(w) ==
    /\ pc[w] = "fb_except"
    /\ pc' = [pc EXCEPT ![w] = "close"]
    /\ UNCHANGED <<store, queue, selected, called, locals>>
    /\ UNCHANGED other_vars

\* lines 132-133: finally, browser.close(); the async with block is left,
\* the coroutine and process_link return
Close(w) ==
    /\ pc[w] = "close"
    /\ browser' = [browser EXCEPT ![w] = PlaywrightExit("closed")]
    /\ pc' = [pc EXCEPT ![w] = "return"]
    /\ UNCHANGED <<store, queue, selected, called, link, response, soup, img_res,
                   fallbacks, dom, exc>>
    /\ UNCHANGED other_vars

Step(w, e) ==
    \/ HandleStart(w)
    \/ NextLink(w)
    \/ FetchPage(w, e)
    \/ ParseAndStore(w, e)
    \/ CheckOgImage(w)
    \/ Normalize(w)
    \/ SaveImage(w, e)
    \/ Launch(w, e)
    \/ NewContext(w, e)
    \/ Goto(w, e)
    \/ Screenshot(w, e)
    \/ Resize(w, e)
    \/ SaveFallback(w, e)
    \/ ExceptInner(w)
    \/ Close(w)

\* every outcome of every remote call, parse and save
World ==
    [pages |-> PageOutcomes, soups |-> Soups, db |-> BOOLEAN,
     browser |-> BOOLEAN, doms |-> {"same", "changed"}]

\* the command invoked again and again, one invocation at a time
Next == \E w \in {"w1"} : Step(w, World)

Spec == Init /\ [][Next]_vars

\* every outcome that decides where process_link goes next: the pages drawn
\* all carry an og:description, and the rendered page has the metadata of
\* the static HTML (neither is looked at by any condition of the code)
LiveWorld ==
    [pages |-> PageOutcomes, soups |-> {s \in Soups : s.og_desc = "content"},
     db |-> BOOLEAN, browser |-> BOOLEAN, doms |-> {"same"}]

NextLive == \E w \in {"w1"} : Step(w, LiveWorld)

\* a step of a run under way: the process is inside handle
RunStep(w) == pc[w] \notin {"idle", "done"} /\ Step(w, LiveWorld)

\* One invocation at a time, and a run under way takes its next step: the
\* process executes handle sequentially, and every call it waits on returns
\* or raises (requests.get has timeout=15 and timeout=10, page.goto
\* timeout=30000, wait_for_timeout 2000; the other playwright calls have
\* the library's default timeout). When the command is invoked again is
\* left open.
SpecLive == Init /\ [][NextLive]_vars /\ WF_vars(RunStep("w1"))

\* two invocations of the command at once, over the same table. The pages
\* answer or time out and carry full metadata with a good og:image, none,
\* or one that times out; saves and browser steps may fail.
QuietWorld ==
    [pages |-> {"ok", "timeout"},
     soups |-> {s \in Soups : /\ s.og_title = "content" /\ s.title = "text"
                              /\ s.og_desc = "content"
                              /\ s.og_img \in {"good", "absent", "timeout"}},
     db |-> BOOLEAN, browser |-> BOOLEAN, doms |-> {"same"}]

NextConc == \E w \in Workers : Step(w, QuietWorld)

SpecConc == Init /\ [][NextConc]_vars

\* ------------------------------------------------- get_domain_from_url

\* longest netloc drawn
MaxHostLen == 7

\* the characters of the netlocs drawn: those of "www." and one other
HostChars == {"w", ".", "a"}

\* urlparse(url).netloc of the URLs drawn (line 17)
Hosts == UNION {[1..n -> HostChars] : n \in 0..MaxHostLen}

InitDomain ==
    /\ CrawlInit
    /\ MagNone
    /\ OgNone
    /\ probe \in {[fn |-> "get_domain_from_url", arg |-> h, out |-> <<>>,
                    applied |-> FALSE] : h \in Hosts}

\* lines 16-19: get_domain_from_url applied to the URL drawn
ApplyDomain ==
    /\ probe.fn = "get_domain_from_url"
    /\ ~probe.applied
    /\ probe' = [probe EXCEPT !.out = clean_domain(probe.arg),
                              !.applied = TRUE]
    /\ UNCHANGED not_probe

SpecDomain == InitDomain /\ [][ApplyDomain]_vars

\* ------------------------------------------------------ title slice

\* the slice bound of line 60
TitleLimit == 249

\* longest title drawn
MaxTitleLen == 251

\* code points of a title, named by the bytes their UTF-8 encoding takes
CodePoints == 1..3

\* mutant of title_slice: the bound of the magazine job, [:250]
title_slice_250(t) ==
    SubSeq(t, 1, IF Len(t) < TitleLimit + 1 THEN Len(t) ELSE TitleLimit + 1)

\* line 60, t[:249] on a str: the first 249 code points, or all of them
title_slice(t) ==
    SubSeq(t, 1, IF Len(t) < TitleLimit THEN Len(t) ELSE TitleLimit)

\* the selected titles drawn: every length, and three mixes of one-byte
\* and multi-byte code points
Titles ==
    {[j \in 1..n |-> 1 + ((j + k) % 3)] : n \in 0..MaxTitleLen, k \in CodePoints}

InitTitle ==
    /\ CrawlInit
    /\ MagNone
    /\ OgNone
    /\ probe \in {[fn |-> "title_slice", arg |-> t, out |-> <<>>,
                    applied |-> FALSE] : t \in Titles}

\* lines 56-60: the slice applied to the selected title
ApplyTitle ==
    /\ probe.fn = "title_slice"
    /\ ~probe.applied
    /\ probe' = [probe EXCEPT !.out = title_slice(probe.arg),
                              !.applied = TRUE]
    /\ UNCHANGED not_probe

SpecTitle == InitTitle /\ [][ApplyTitle]_vars

\* ------------------------------------------------- image normalisation

\* the box of img.thumbnail((600, 315)) and img.resize((600, 315))
BoxWidth == 600
BoxHeight == 315

\* the viewport of the browser context, which is the size of the screenshot
ViewportWidth == 1200
ViewportHeight == 630

\* largest og:image drawn
MaxWidth == 700
MaxHeight == 400

Abs(n) == IF n < 0 THEN -n ELSE n

\* mutant of thumbnail: the og:image is forced into the box, as resize does
thumbnail_Forced(w, h) == <<BoxWidth, BoxHeight>>

\* line 78, Image.thumbnail((600, 315)) on an image of w x h: an image that
\* fits the box is left as it is; otherwise the side that binds takes the
\* size of the box and the other is the scaled size, rounded down or up,
\* whichever is closer to the aspect ratio of the source, and at least 1
thumbnail(w, h) ==
    IF BoxWidth >= w /\ BoxHeight >= h THEN <<w, h>>
    ELSE IF BoxWidth * h >= BoxHeight * w
    THEN LET num == BoxHeight * w
             lo == num \div h
             hi == IF num % h = 0 THEN lo ELSE lo + 1
             x == IF Abs(num - lo * h) <= Abs(num - hi * h) THEN lo ELSE hi
         IN  <<IF x < 1 THEN 1 ELSE x, BoxHeight>>
    ELSE LET num == BoxWidth * h
             lo == num \div w
             hi == IF num % w = 0 THEN lo ELSE lo + 1
             y == IF lo = 0 THEN lo
                  ELSE IF Abs(w * lo - num) * hi <= Abs(w * hi - num) * lo
                       THEN lo ELSE hi
         IN  <<BoxWidth, IF y < 1 THEN 1 ELSE y>>

\* line 118, Image.resize((600, 315)): the size given, whatever the source
resize(w, h) == <<BoxWidth, BoxHeight>>

\* the og:images drawn, and the one screenshot the browser context takes
InitImage ==
    /\ CrawlInit
    /\ MagNone
    /\ OgNone
    /\ probe \in
         {[fn |-> "thumbnail", arg |-> <<w, h>>, out |-> <<>>,
           applied |-> FALSE] : w \in 1..MaxWidth, h \in 1..MaxHeight}
         \cup {[fn |-> "resize", arg |-> <<ViewportWidth, ViewportHeight>>,
                 out |-> <<>>, applied |-> FALSE]}

\* lines 75-78: the decoded og:image is shrunk
ApplyThumbnail ==
    /\ probe.fn = "thumbnail"
    /\ ~probe.applied
    /\ probe' = [probe EXCEPT !.out = thumbnail(probe.arg[1], probe.arg[2]),
                              !.applied = TRUE]
    /\ UNCHANGED not_probe

\* lines 112-118: the screenshot is resized
ApplyResize ==
    /\ probe.fn = "resize"
    /\ ~probe.applied
    /\ probe' = [probe EXCEPT !.out = resize(probe.arg[1], probe.arg[2]),
                              !.applied = TRUE]
    /\ UNCHANGED not_probe

NextImage == ApplyThumbnail \/ ApplyResize

SpecImage == InitImage /\ [][NextImage]_vars

\* ------------------------------------------------ process_magazine_pages

\* the issues as the editors left them: with a PDF document or without
\* (download_pdf is nullable), none processed
MagInit ==
    /\ issues \in [Issues -> [download_pdf : BOOLEAN, ai_data : {<<>>},
                              ai_processed_datetime : {Unset}]]
    /\ pages = [i \in Issues |-> [n \in PageRows |-> NoPageData]]
    /\ mpc = "idle"
    /\ magazine_qs = <<>>
    /\ magazine = 0
    /\ response_text = NoResponse
    /\ data = <<>>
    /\ entry = 0
    /\ merr = "-"

InitMag ==
    /\ CrawlInit
    /\ ProbeNone
    /\ OgNone
    /\ MagInit

\* filter(ai_processed_datetime__isnull=True).order_by("-date"): the
\* unprocessed issues from i down to 1, later issues having later dates
RECURSIVE Unprocessed(_)
Unprocessed(i) ==
    IF i = 0 THEN <<>>
    ELSE (IF issues[i].ai_processed_datetime = Unset THEN <<i>> ELSE <<>>)
         \o Unprocessed(i - 1)

\* lines 41-49: the client is created and the queryset evaluated
MagStart ==
    /\ mpc \in {"idle", "done", "aborted"}
    /\ magazine_qs' = Unprocessed(NumIssues)
    /\ mpc' = "loop"
    /\ magazine' = 0
    /\ merr' = "-"
    /\ UNCHANGED <<issues, pages, response_text, data, entry>>
    /\ UNCHANGED not_mag

\* an exception inside the try of line 55: the handler of lines 106-107
\* writes it to stderr and the loop goes on
MagRaise(e) ==
    /\ mpc' = "loop"
    /\ merr' = e

\* lines 49-53: the next issue, and the path of its PDF, computed before
\* the try: on an issue without a document magazine.download_pdf is None
\* and .file raises AttributeError, which ends handle
MagNext ==
    /\ mpc = "loop"
    /\ response_text' = NoResponse
    /\ data' = <<>>
    /\ entry' = 0
    /\ IF magazine_qs = <<>>
       THEN /\ mpc' = "done"
            /\ magazine' = 0
            /\ merr' = "-"
            /\ UNCHANGED magazine_qs
       ELSE /\ magazine' = Head(magazine_qs)
            /\ magazine_qs' = Tail(magazine_qs)
            /\ IF issues[Head(magazine_qs)].download_pdf
               THEN mpc' = "upload" /\ merr' = "-"
               ELSE mpc' = "aborted" /\ merr' = "AttributeError"
    /\ UNCHANGED <<issues, pages>>
    /\ UNCHANGED not_mag

\* lines 58-65: the PDF is opened and uploaded
Upload ==
    /\ mpc = "upload"
    /\ \E ok \in BOOLEAN :
        IF ok THEN mpc' = "generate" /\ UNCHANGED merr
        ELSE MagRaise("UploadError")
    /\ UNCHANGED <<issues, pages, magazine_qs, magazine, response_text, data,
                   entry>>
    /\ UNCHANGED not_mag

\* lines 69-88: generate_content answers with some text, or raises
Generate ==
    /\ mpc = "generate"
    /\ \/ \E r \in Responses :
             /\ response_text' = r
             /\ mpc' = "write"
             /\ UNCHANGED merr
       \/ MagRaise("GenerateError") /\ UNCHANGED response_text
    /\ UNCHANGED <<issues, pages, magazine_qs, magazine, data, entry>>
    /\ UNCHANGED not_mag

\* lines 91-97: response.text is written to the JSON file
WriteJson ==
    /\ mpc = "write"
    /\ \E ok \in BOOLEAN :
        IF ok THEN mpc' = "parse" /\ UNCHANGED merr
        ELSE MagRaise("OSError")
    /\ UNCHANGED <<issues, pages, magazine_qs, magazine, response_text, data,
                   entry>>
    /\ UNCHANGED not_mag

\* lines 99-100: json.loads(response.text), and process_data is entered
ParseJson ==
    /\ mpc = "parse"
    /\ IF response_text.json
       THEN /\ data' = response_text.array
            /\ entry' = 1
            /\ mpc' = "process_data"
            /\ UNCHANGED merr
       ELSE /\ MagRaise("JSONDecodeError")
            /\ UNCHANGED <<data, entry>>
    /\ UNCHANGED <<issues, pages, magazine_qs, magazine, response_text>>
    /\ UNCHANGED not_mag

\* filter(issue=magazine, page=p["page_number"]).update(..., ai_data=p): the
\* rows of that page of the issue are updated, none if there is no such row
UpdatePage(i, p) ==
    [pages EXCEPT ![i] =
        [n \in PageRows |-> IF n = p.page_number THEN p ELSE pages[i][n]]]

\* lines 16-31: one page entry; p["page_number"] raises KeyError on an
\* entry without the key
ApplyEntry ==
    /\ mpc = "process_data"
    /\ entry <= Len(data)
    /\ IF "page_number" \in DOMAIN data[entry]
       THEN /\ pages' = UpdatePage(magazine, data[entry])
            /\ entry' = entry + 1
            /\ UNCHANGED <<mpc, merr>>
       ELSE /\ MagRaise("KeyError")
            /\ UNCHANGED <<pages, entry>>
    /\ UNCHANGED <<issues, magazine_qs, magazine, response_text, data>>
    /\ UNCHANGED not_mag

\* mutant of Commit: the issue is saved as processed before the last page
\* entry is applied
Commit_Early ==
    /\ mpc = "process_data"
    /\ entry >= Len(data)
    /\ \E saved \in BOOLEAN :
        IF saved
        THEN /\ issues' = [issues EXCEPT ![magazine].ai_data = data,
                                         ![magazine].ai_processed_datetime = "now"]
             /\ mpc' = IF entry > Len(data) THEN "loop" ELSE "process_data"
             /\ UNCHANGED merr
        ELSE /\ MagRaise("DatabaseError")
             /\ UNCHANGED issues
    /\ UNCHANGED <<pages, magazine_qs, magazine, response_text, data, entry>>
    /\ UNCHANGED not_mag

\* lines 33-35 and 102-104: after the last entry the issue gets ai_data and
\* ai_processed_datetime and is saved
Commit ==
    /\ mpc = "process_data"
    /\ entry > Len(data)
    /\ \E saved \in BOOLEAN :
        IF saved
        THEN /\ issues' = [issues EXCEPT ![magazine].ai_data = data,
                                         ![magazine].ai_processed_datetime = "now"]
             /\ mpc' = "loop"
             /\ UNCHANGED merr
        ELSE /\ MagRaise("DatabaseError")
             /\ UNCHANGED issues
    /\ UNCHANGED <<pages, magazine_qs, magazine, response_text, data, entry>>
    /\ UNCHANGED not_mag

NextMag ==
    \/ MagStart
    \/ MagNext
    \/ Upload
    \/ Generate
    \/ WriteJson
    \/ ParseJson
    \/ ApplyEntry
    \/ Commit

SpecMag == InitMag /\ [][NextMag]_vars

\* ------------------------------------------------ import_magazines_og_img

\* the directory before the first run: a large image is there or not, and
\* decodes ("scan") or not ("broken"); an OG image may be there already
InitOg ==
    /\ CrawlInit
    /\ ProbeNone
    /\ MagNone
    /\ files \in {f \in [Names -> {"none", "scan", "broken", "og_old"}] :
                    \A n \in Names :
                        IF IsLarge(n) THEN f[n] # "og_old"
                        ELSE f[n] \in {"none", "og_old"}}
    /\ opc = "idle"
    /\ large_paths = {}
    /\ count = 0
    /\ raised = FALSE
    /\ settled = FALSE
    /\ rerun = FALSE

\* between two runs a large image is added to the directory
AddScan ==
    /\ opc \in {"idle", "finished"}
    /\ \E n \in Names :
        /\ IsLarge(n)
        /\ files[n] = "none"
        /\ files' = [files EXCEPT ![n] = "scan"]
    /\ settled' = FALSE
    /\ UNCHANGED <<opc, large_paths, count, raised, rerun>>
    /\ UNCHANGED not_og

\* lines 17-18: count = 0 and the glob
OgStart ==
    /\ opc \in {"idle", "finished"}
    /\ large_paths' = {n \in Names : IsLarge(n) /\ files[n] # "none"}
    /\ count' = 0
    /\ raised' = FALSE
    /\ rerun' = settled
    /\ opc' = "loop"
    /\ UNCHANGED <<files, settled>>
    /\ UNCHANGED not_og

\* lines 19-26: the OG file of this large image exists, continue
SkipExisting ==
    /\ opc = "loop"
    /\ \E large_path \in large_paths :
        /\ files[og_filename(large_path)] # "none"
        /\ large_paths' = large_paths \ {large_path}
    /\ UNCHANGED <<files, opc, count, raised, settled, rerun>>
    /\ UNCHANGED not_og

\* mutant of Generate: no test of os.path.exists
Generate_Overwrite ==
    /\ opc = "loop"
    /\ \E large_path \in large_paths :
        /\ large_paths' = large_paths \ {large_path}
        /\ IF files[large_path] = "broken"
           THEN raised' = TRUE /\ UNCHANGED <<files, count>>
           ELSE \/ /\ files' = [files EXCEPT ![og_filename(large_path)] = "og_new"]
                   /\ count' = count + 1
                   /\ UNCHANGED raised
                \/ /\ \E left \in {"none", "og_partial"} :
                        files' = [files EXCEPT ![og_filename(large_path)] = left]
                   /\ raised' = TRUE
                   /\ UNCHANGED count
    /\ UNCHANGED <<opc, settled, rerun>>
    /\ UNCHANGED not_og

\* lines 19-52: there is no OG file of this large image; it is opened,
\* resized, cropped and saved as the OG file, and count goes up. Image.open
\* raises on a file that does not decode; a save that raises leaves no
\* file or a partial one
GenerateOg ==
    /\ opc = "loop"
    /\ \E large_path \in large_paths :
        /\ files[og_filename(large_path)] = "none"
        /\ large_paths' = large_paths \ {large_path}
        /\ IF files[large_path] = "broken"
           THEN raised' = TRUE /\ UNCHANGED <<files, count>>
           ELSE \/ /\ files' = [files EXCEPT ![og_filename(large_path)] = "og_new"]
                   /\ count' = count + 1
                   /\ UNCHANGED raised
                \/ /\ \E left \in {"none", "og_partial"} :
                        files' = [files EXCEPT ![og_filename(large_path)] = left]
                   /\ raised' = TRUE
                   /\ UNCHANGED count
    /\ UNCHANGED <<opc, settled, rerun>>
    /\ UNCHANGED not_og

\* lines 54-56: the loop is over, the total is written
OgFinish ==
    /\ opc = "loop"
    /\ large_paths = {}
    /\ opc' = "finished"
    /\ settled' = ~raised
    /\ UNCHANGED <<files, large_paths, count, raised, rerun>>
    /\ UNCHANGED not_og

NextOg ==
    \/ AddScan
    \/ OgStart
    \/ SkipExisting
    \/ GenerateOg
    \/ OgFinish

SpecOg == InitOg /\ [][NextOg]_vars

\* ------------------------------------------------------------ claims

\* the row of the instance worker w is working on
Row(w) == store[link[w].id]

\* process_link has returned to the loop of handle
Returned(w) == pc[w] = "return"

\* worker w is inside process_link on row i and has saved its metadata
\* to the row (line 62)
Enriching(w, i) ==
    /\ link[w].id = i
    /\ pc[w] \in {"og_image", "normalize", "save_image", "fallback",
                  "new_context", "goto", "screenshot", "resize",
                  "save_fallback", "fb_except", "close"}

\* the fallback of this process_link call saved its screenshot
FallbackSaved(w) ==
    /\ Returned(w)
    /\ fallbacks[w] > 0
    /\ Row(w).image = "pageimg"
    /\ Row(w).downloaded_datetime # Unset

Ids(q) == {q[k].id : k \in 1..Len(q)}

\* C1: in every persisted state, a row whose downloaded_datetime is set has
\* had its image, title, description and domain written.
C1_ProcessedImpliesWritten ==
    \A i \in Links :
        store[i].downloaded_datetime # Unset =>
            /\ store[i].image # Unset
            /\ store[i].title # Unset
            /\ store[i].description # Unset
            /\ store[i].domain # UnsetDomain

\* one row finished by the lightweight path and one by the fallback, the
\* second after a call on it had failed
C1_Witness ==
    /\ store[1].downloaded_datetime # Unset /\ store[1].image = "preview"
    /\ store[2].downloaded_datetime # Unset /\ store[2].image = "pageimg"
    /\ Returned("w1") /\ link["w1"].id = 2 /\ selected["w1"] = {2}

\* C2 (as claimed): when the page request fails, process_link invokes the
\* screenshot fallback for that row before it returns.
C2_FetchFailureInvokesFallback ==
    \A w \in Workers :
        (Returned(w) /\ response[w] \in {"timeout", "http_error"})
            => fallbacks[w] > 0

\* C3 (as claimed): when the page was fetched and its metadata stored, and
\* the page has no og:image or the request for the og:image fails (non-200
\* or exception), the fallback is invoked before process_link returns.
C3_NoImageInvokesFallback ==
    \A w \in Workers :
        (/\ Returned(w)
         /\ response[w] = "ok"
         /\ exc[w] \notin {"TypeError", "DatabaseError"}
         /\ soup[w].og_img \in {"absent", "empty", "http404", "timeout"})
            => fallbacks[w] > 0

\* C4 (as claimed): when the og:image was fetched with status 200 but cannot
\* be decoded, process_link goes on to the fallback instead of abandoning the
\* row.
C4_UndecodableInvokesFallback ==
    \A w \in Workers :
        (Returned(w) /\ img_res[w] = "200" /\ soup[w].og_img = "corrupt")
            => fallbacks[w] > 0

\* C5: an exception in process_link never ends the run: while handle runs,
\* the rows called so far and the rows still queued are the rows selected,
\* and handle ends only with the queue empty, process_link called on all.
C5_RunVisitsEveryRow ==
    \A w \in Workers :
        /\ pc[w] # "idle" => called[w] \cup Ids(queue[w]) = selected[w]
        /\ pc[w] = "done" => queue[w] = <<>> /\ called[w] = selected[w]

\* a run over both rows is over, and the call on row 1 wrote nothing: it
\* ended in an exception
C5_Witness ==
    /\ pc["w1"] = "done"
    /\ called["w1"] = Links
    /\ store[1] = Blank

C7_GoodImageEndsLightweight ==
    \A w \in Workers :
        (/\ Returned(w)
         /\ response[w] = "ok"
         /\ soup[w].og_img = "good"
         /\ exc[w] # "DatabaseError")
            => /\ Row(w).image = "preview"
               /\ Row(w).downloaded_datetime # Unset
               /\ fallbacks[w] = 0

\* C8 (as claimed): a row whose page request failed ends the call with its
\* domain stored.
C8_DomainStoredFirst ==
    \A w \in Workers :
        (Returned(w) /\ response[w] \in {"timeout", "http_error"})
            => /\ Row(w).domain # UnsetDomain
               /\ Row(w).domain = get_domain_from_url(link[w].id)

\* C8 (amended): the domain is stored with title and description, after the
\* page was fetched and parsed; a call whose page request fails writes
\* nothing, the row stays as the run loaded it.
C8_DomainStoredWithMetadata ==
    /\ \A i \in Links :
         store[i].domain # UnsetDomain =>
            /\ store[i].domain = get_domain_from_url(i)
            /\ store[i].title # Unset
            /\ store[i].description # Unset
    /\ \A w \in Workers :
         (Returned(w) /\ response[w] \in {"timeout", "http_error"})
            => /\ Row(w) = Fields(link[w])
               /\ Row(w).downloaded_datetime = Unset

\* the page request of a row never written before has failed
C8_Witness ==
    /\ Returned("w1")
    /\ response["w1"] = "timeout"
    /\ Row("w1").domain = UnsetDomain

\* C9 (as claimed): two invocations at once never both enrich the same row:
\* they are never both inside process_link on it, each having written it.
C9_OneWorkerPerRow ==
    \A i \in Links : ~(Enriching("w1", i) /\ Enriching("w2", i))

FallbackFailed(w) ==
    /\ Returned(w)
    /\ fallbacks[w] > 0
    /\ ~(link[w].downloaded_datetime # Unset /\ Row(w) = Fields(link[w]))

\* C11: a row on which the lightweight path went on to the fallback and the
\* fallback failed is left with downloaded_datetime and image unset, only
\* the domain, title and description of line 62 stored; it is pending, and
\* a run that starts selects and queues every pending row.
C11_FailedRowStaysPending ==
    \A w \in Workers :
        /\ FallbackFailed(w) =>
              /\ Row(w).downloaded_datetime = Unset
              /\ Row(w).image = Unset
              /\ Row(w).title = link[w].title
              /\ Row(w).description = link[w].description
              /\ Row(w).domain = link[w].domain
              /\ Pending(link[w].id)
        /\ pc[w] = "loop" =>
              /\ selected[w] = {i \in Links : store[i].downloaded_datetime = Unset}
              /\ Ids(queue[w]) = selected[w]

\* row 2 was finished by an earlier run, which left row 1 pending; this run
\* selected row 1 alone, and its fallback has failed at the save
C11_Witness ==
    /\ FallbackFailed("w1")
    /\ link["w1"].id = 1
    /\ link["w1"].image = "pageimg"
    /\ selected["w1"] = {1}
    /\ store[2].downloaded_datetime # Unset

\* C12 (as claimed): for every fetched and parsed page the extraction of
\* the metadata raises nothing and sets a title by precedence: og:title
\* content, else <title> text, else the empty string.
C12_ExtractionNeverRaises ==
    \A w \in Workers :
        soup[w] # NoSoup =>
            /\ exc[w] # "TypeError"
            /\ link[w].title =
                  (IF soup[w].og_title = "content" THEN "og_title"
                   ELSE IF soup[w].title = "text" THEN "title_tag"
                   ELSE "")

C16_ImageOnlyWithTimestamp ==
    [][\A i \in Links :
          /\ store[i].image = Unset <=> store[i].downloaded_datetime = Unset
          /\ store'[i].image = Unset <=> store'[i].downloaded_datetime = Unset
          /\ store[i].downloaded_datetime # Unset => store'[i] = store[i]]_vars

\* the lightweight path saved metadata to row 1 (still pending, no image),
\* then its final save stored image and timestamp, and the run went on to
\* row 2
C16_Witness ==
    /\ store[1].image = "preview"
    /\ store[1].downloaded_datetime # Unset
    /\ link["w1"].id = 2
    /\ pc["w1"] = "og_image"
    /\ store[2].title # Unset
    /\ store[2].image = Unset

\* C15 (as claimed): get_domain_from_url returns the netloc with only a
\* leading "www." removed; a netloc that does not start with "www." is
\* returned unchanged, also when "www." occurs inside it.
C15_OnlyLeadingWwwRemoved ==
    (probe.fn = "get_domain_from_url" /\ probe.applied) =>
        LET host == probe.arg
            www == <<"w", "w", "w", ".">>
        IN  probe.out =
              (IF Len(host) >= 4 /\ SubSeq(host, 1, 4) = www
               THEN SubSeq(host, 5, Len(host))
               ELSE host)

\* C17: the stored title is the prefix of the selected title of length
\* min(length, 249), made of whole code points of it: a title of at most
\* 249 code points is stored unchanged, a longer one as its first 249.
C17_TitleIsPrefixOfLength249 ==
    (probe.fn = "title_slice" /\ probe.applied) =>
        LET t == probe.arg
            stored == probe.out
        IN  /\ Len(stored) <= 249
            /\ Len(stored) = (IF Len(t) < 249 THEN Len(t) ELSE 249)
            /\ \A j \in 1..Len(stored) : stored[j] = t[j]
            /\ Len(t) <= 249 => stored = t

\* a title of 251 code points, multi-byte ones among them, was cut to its
\* first 249
C17_Witness ==
    /\ probe.fn = "title_slice"
    /\ probe.applied
    /\ Len(probe.arg) = 251
    /\ Len(probe.out) = 249
    /\ probe.out[249] = 3

\* C14: on both paths the stored image is at most 600 wide and 315 high, no
\* larger than its source in either dimension, and has the aspect ratio of
\* the source up to the rounding of one side to whole pixels.
C14_StoredImageFitsBox ==
    (probe.fn \in {"thumbnail", "resize"} /\ probe.applied) =>
        LET w == probe.arg[1]
            h == probe.arg[2]
            x == probe.out[1]
            y == probe.out[2]
        IN  /\ 1 <= x /\ x <= 600
            /\ 1 <= y /\ y <= 315
            /\ x <= w
            /\ y <= h
            /\ \/ Abs(x * h - y * w) < h
               \/ Abs(x * h - y * w) < w

\* an og:image of 700 x 400, higher than the box, was shrunk to 551 x 315
C14_Witness ==
    /\ probe.fn = "thumbnail"
    /\ probe.applied
    /\ probe.arg = <<700, 400>>
    /\ probe.out = <<551, 315>>

C19_ProcessedOnlyAfterAllEntries ==
    /\ \A i \in Issues :
         issues[i].ai_processed_datetime # Unset =>
            \A k \in 1..Len(issues[i].ai_data) :
                LET p == issues[i].ai_data[k]
                IN  /\ "page_number" \in DOMAIN p
                    /\ p.page_number \in PageRows
                          => pages[i][p.page_number] = p
    /\ merr \in {"UploadError", "GenerateError", "OSError", "JSONDecodeError",
                 "KeyError"} =>
            /\ mpc = "loop"
            /\ issues[magazine].ai_processed_datetime = Unset
    /\ mpc = "done" => magazine_qs = <<>>
    /\ (mpc = "loop" /\ magazine = 0) =>
            \A i \in Issues :
                issues[i].ai_processed_datetime = Unset
                    => \E k \in 1..Len(magazine_qs) : magazine_qs[k] = i

\* a run is over: the later issue failed on its second entry, which has no
\* page_number, after its first was applied, and stayed unprocessed; the
\* loop went on and processed the earlier issue with both entries applied
C19_Witness ==
    /\ mpc = "done"
    /\ issues[2].ai_processed_datetime = Unset
    /\ pages[2][1] = [page_number |-> 1]
    /\ issues[1].ai_processed_datetime # Unset
    /\ issues[1].ai_data = <<[page_number |-> 2], [page_number |-> 1]>>

\* C20: a step of the job never changes a file that exists; it writes a
\* file only under the OG name of a large image that is there and has no
\* OG file; and a run begun right after a run that raised nothing counts
\* zero images and changes no file.
C20_OgJobIdempotent ==
    [][/\ opc = "loop" =>
            \A n \in Names :
                files'[n] # files[n] =>
                    /\ files[n] = "none"
                    /\ \E l \in Names :
                          /\ IsLarge(l)
                          /\ files[l] # "none"
                          /\ og_filename(l) = n
       /\ rerun' => count' = 0
       /\ (rerun /\ opc = "loop") => files' = files]_vars

\* the first run generated an OG image for every large image and raised
\* nothing; the run right after it is over and counted zero
C20_Witness ==
    /\ opc = "finished"
    /\ rerun
    /\ count = 0
    /\ \A k \in Scans :
          /\ files[LargeName(k)] = "scan"
          /\ files[og_filename(LargeName(k))] = "og_new"

====
